---- MODULE Spec2Model ----
(***************************************************************************)
(* Model of advanced-vector/vector.h: RawMemory<T> (an owned block of raw  *)
(* slots) and Vector<Type> (a block plus a logical size).                  *)
(*                                                                         *)
(* A block is a sequence of cells.  A cell is RAW (storage without an      *)
(* object), MOVED (a live object that was moved from) or a value of the    *)
(* element type.  Every public operation is one action; inside an action   *)
(* the handler is a chain of steps over a "machine" record that carries    *)
(* the heap, the vectors, the pending exception and the bookkeeping of the *)
(* call.                                                                   *)
(*                                                                         *)
(* Addresses: between calls a vector is stored with the cells of the block *)
(* it owns.  During a call the block of vector v has address v and a block *)
(* the call allocates gets the smallest address not in use, so that the    *)
(* identity of blocks is visible to every property of a call.              *)
(*                                                                         *)
(* Failure injection: every operation that can throw (operator new, a copy *)
(* constructor, a copy assignment, a value construction) is an "attempt";  *)
(* the call's input failAt chooses the attempt that throws (0: none).      *)
(*                                                                         *)
(* Undefined reads: a read of a slot that holds no object, or of a slot    *)
(* past the end of the block, yields an arbitrary value of the element     *)
(* type, the call's input junk.                                            *)
(***************************************************************************)
EXTENDS Integers, Sequences, FiniteSets, TLC

\* ---------------------------------------------------------------- bounds
\* element values 1..NumValues
NumValues == 2
\* largest capacity a single vector is grown to
MaxCap == 3
\* largest capacity while two vectors are live together
PairCap == 2
\* largest capacity in a history of pushes and pops only
MaxPush == 4
\* largest capacity while two vectors are copied, moved and swapped
OwnCap == 2
\* largest capacity of a RawMemory object on its own
RawCap == 3

Values == 1..NumValues
\* vector 1 is "a" (the target of a call), vector 2 is "b"
Vecs == {1, 2}
\* every vector owns at most one block and a call holds at most one more
BlockIds == 1..(Cardinality(Vecs) + 1)

\* ------------------------------------------------------------ cell kinds
RAW == -1
MOVED == 0
DefaultValue == 1
nullptr == 0

\* vec: the Vector objects, each with the cells of its block; nothrow_move:
\* the trait is_nothrow_move_constructible_v<Type> ||
\* !is_copy_constructible_v<Type> of the element type; last: the last call,
\* the branch it took and whether it threw; ref: the reference sequence of a
\* push/pop history
VARIABLES vec, nothrow_move, last, ref

vars == <<vec, nothrow_move, last, ref>>

Live(c) == c /= RAW

FreeBlock == [alloc |-> FALSE, cells |-> <<>>]

\* a Vector object during a call: data_.buffer_, data_.capacity_, size_
EmptyVector == [alive |-> TRUE, buffer |-> nullptr, capacity |-> 0, size |-> 0]

DeadVector == [alive |-> FALSE, buffer |-> nullptr, capacity |-> 0, size |-> 0]

\* a Vector object between calls
StoredEmpty == [alive |-> TRUE, capacity |-> 0, size |-> 0, cells |-> <<>>]

StoredDead == [alive |-> FALSE, capacity |-> 0, size |-> 0, cells |-> <<>>]

\* ----------------------------------------------------------- the machine
\* the heap at the start of a call: the block of vector v at address v
HeapNow ==
  [b \in BlockIds |->
     IF b \in Vecs /\ vec[b].alive /\ vec[b].capacity > 0
       THEN [alloc |-> TRUE, cells |-> vec[b].cells]
       ELSE FreeBlock]

VecNow ==
  [v \in Vecs |->
     [alive |-> vec[v].alive,
      buffer |-> IF vec[v].alive /\ vec[v].capacity > 0 THEN v ELSE nullptr,
      capacity |-> vec[v].capacity,
      size |-> vec[v].size]]

\* exc: an exception is propagating; n: attempts so far; ret: the returned
\* position; path: the branch the call took; tmp: a Vector local to the
\* call; the counters and flags record what the call did to the heap.
Machine(failAt, junk) ==
  [heap |-> HeapNow, vec |-> VecNow, exc |-> FALSE, n |-> 0, failAt |-> failAt,
   junk |-> junk, ret |-> [blk |-> nullptr, off |-> 0], path |-> "none",
   tmp |-> EmptyVector, allocs |-> 0, frees |-> 0, ctors |-> 0, dtors |-> 0,
   badRead |-> FALSE, leak |-> FALSE, ub |-> FALSE]

\* one attempt of an operation that may throw
Fallible(m) == [m EXCEPT !.n = @ + 1, !.exc = (m.n + 1 = m.failAt)]

InBlock(m, b, i) ==
  /\ b /= nullptr
  /\ m.heap[b].alloc
  /\ i >= 0
  /\ i < Len(m.heap[b].cells)

\* the value an element read yields; reading a slot that holds no object or
\* lies outside the block is undefined: it yields the call's junk value
ReadCell(m, b, i) ==
  IF InBlock(m, b, i) /\ Live(m.heap[b].cells[i + 1])
    THEN m.heap[b].cells[i + 1]
    ELSE m.junk

IsBadRead(m, b, i) == ~(InBlock(m, b, i) /\ Live(m.heap[b].cells[i + 1]))

\* ---------------------------------------------------- RawMemory (lines 10-85)
FreshBlock(h) ==
  CHOOSE b \in BlockIds : ~h[b].alloc /\ \A c \in BlockIds : c < b => h[c].alloc

\* RawMemory::Allocate: nullptr for n = 0, else operator new (may throw)
Allocate(m, n) ==
  IF m.exc THEN m
  ELSE IF n = 0 THEN [m EXCEPT !.ret = [blk |-> nullptr, off |-> 0]]
  ELSE LET m1 == Fallible(m)
           b == FreshBlock(m.heap)
       IN IF m1.exc THEN m1
          ELSE [m1 EXCEPT !.heap[b] = [alloc |-> TRUE, cells |-> [i \in 1..n |-> RAW]],
                          !.allocs = @ + 1,
                          !.ret = [blk |-> b, off |-> 0]]

\* RawMemory::Deallocate via ~RawMemory: runs during unwinding as well; a
\* block released while a slot still holds an object leaks that object
Deallocate(m, b) ==
  IF b = nullptr THEN m
  ELSE [m EXCEPT !.heap[b] = FreeBlock,
                 !.frees = @ + 1,
                 !.ub = @ \/ ~m.heap[b].alloc,
                 !.leak = @ \/ (\E i \in DOMAIN m.heap[b].cells : Live(m.heap[b].cells[i]))]

\* a RawMemory value: the pair buffer_, capacity_
RawMemoryOf(m, v) == [buffer |-> m.vec[v].buffer, capacity |-> m.vec[v].capacity]

\* RawMemory::Swap between a vector's data_ and a local RawMemory r; the
\* result keeps the local in field tmp
RawMemorySwap(m, v, r) ==
  IF m.exc THEN [m |-> m, tmp |-> r]
  ELSE [m |-> [m EXCEPT !.vec[v].buffer = r.buffer, !.vec[v].capacity = r.capacity],
        tmp |-> RawMemoryOf(m, v)]

\* RawMemory objects on their own are kept in vec as well, with no elements
\* (size 0).  explicit RawMemory(size_t capacity): the object is left in
\* field tmp
RawMemoryCtor(m, capacity) ==
  LET m1 == Allocate(m, capacity)
  IN IF m1.exc THEN m1
     ELSE [m1 EXCEPT !.tmp = [alive |-> TRUE, buffer |-> m1.ret.blk,
                              capacity |-> capacity, size |-> 0]]

\* RawMemory::Swap(other): this is object v, other is object w
RawSwap(m, v, w) ==
  [m EXCEPT !.vec[v].buffer = m.vec[w].buffer,
            !.vec[v].capacity = m.vec[w].capacity,
            !.vec[w].buffer = m.vec[v].buffer,
            !.vec[w].capacity = m.vec[v].capacity]

\* RawMemory(RawMemory&& other): buffer_(nullptr), capacity_(0), Swap(other)
RawMemoryMoveCtor(m, v, w) ==
  [RawSwap([m EXCEPT !.vec[v] = EmptyVector], v, w) EXCEPT !.path = "swap"]

\* RawMemory::operator=(RawMemory&& rhs)
RawMemoryMoveAssignment(m, v, w) ==
  IF v /= w THEN [RawSwap(m, v, w) EXCEPT !.path = "swap"]
  ELSE [m EXCEPT !.path = "self"]

\* ~RawMemory of object v
RawMemoryDtor(m, v) ==
  [Deallocate(m, m.vec[v].buffer) EXCEPT !.vec[v] = DeadVector]

\* ------------------------------------------------- element-level primitives
\* placement new, new (buf) Type(...), running a constructor that may throw.
\* Building an object in a slot that still holds one reuses the storage: the
\* old object is gone without its destructor having run (a leak); a slot
\* outside the block is a write out of bounds.
Construct(m, b, i, val) ==
  IF m.exc THEN m
  ELSE LET m1 == Fallible(m)
       IN IF m1.exc THEN m1
          ELSE IF ~InBlock(m, b, i) THEN [m1 EXCEPT !.ub = TRUE]
          ELSE [m1 EXCEPT !.heap[b].cells[i + 1] = val,
                          !.ctors = @ + 1,
                          !.leak = @ \/ Live(m.heap[b].cells[i + 1])]

\* placement new of a moved value: never throws (nothrow move constructible)
MoveConstruct(m, b, i, val) ==
  IF m.exc THEN m
  ELSE IF ~InBlock(m, b, i) THEN [m EXCEPT !.ub = TRUE]
  ELSE [m EXCEPT !.heap[b].cells[i + 1] = val,
                 !.ctors = @ + 1,
                 !.leak = @ \/ Live(m.heap[b].cells[i + 1])]

\* copy assignment onto a live element: may throw
CopyAssign(m, b, i, val) ==
  IF m.exc THEN m
  ELSE LET m1 == Fallible(m)
       IN IF m1.exc THEN m1
          ELSE IF ~InBlock(m, b, i) \/ ~Live(m.heap[b].cells[i + 1])
            THEN [m1 EXCEPT !.ub = TRUE]
            ELSE [m1 EXCEPT !.heap[b].cells[i + 1] = val]

\* move assignment onto a live element: does not throw for the element
\* types modelled
MoveAssign(m, b, i, val) ==
  IF m.exc THEN m
  ELSE IF ~InBlock(m, b, i) \/ ~Live(m.heap[b].cells[i + 1])
    THEN [m EXCEPT !.ub = TRUE]
    ELSE [m EXCEPT !.heap[b].cells[i + 1] = val]

\* the source of a move is left live, in the moved-from state
MarkMoved(m, b, i) ==
  IF m.exc \/ ~InBlock(m, b, i) THEN m
  ELSE [m EXCEPT !.heap[b].cells[i + 1] = MOVED]

\* Vector::Destroy: buf->~Type(); noexcept, runs during unwinding as well
Destroy(m, b, i) ==
  IF ~InBlock(m, b, i) \/ ~Live(m.heap[b].cells[i + 1])
    THEN [m EXCEPT !.ub = TRUE]
    ELSE [m EXCEPT !.heap[b].cells[i + 1] = RAW, !.dtors = @ + 1]

\* note an element read (the flag records a read of a slot with no object)
NoteRead(m, b, i) ==
  IF m.exc THEN m ELSE [m EXCEPT !.badRead = @ \/ IsBadRead(m, b, i)]

\* ------------------------------------------------------- <memory> algorithms
RECURSIVE destroy_n(_, _, _, _)
\* std::destroy_n(first, n)
destroy_n(m, b, i, n) ==
  IF n <= 0 THEN m ELSE destroy_n(Destroy(m, b, i), b, i + 1, n - 1)

\* std::destroy_n as a statement of a handler: skipped while unwinding
destroy_n_stmt(m, b, i, n) == IF m.exc THEN m ELSE destroy_n(m, b, i, n)

RECURSIVE uninitialized_copy_from(_, _, _, _, _, _, _)
\* the loop of std::uninitialized_copy_n from its k-th element on; on a
\* throw the k copies already constructed are destroyed and the exception
\* propagates
uninitialized_copy_from(m, sb, si, n, db, di, k) ==
  IF m.exc \/ k >= n THEN m
  ELSE LET m0 == NoteRead(m, sb, si + k)
           m1 == Construct(m0, db, di + k, ReadCell(m, sb, si + k))
       IN IF m1.exc THEN destroy_n(m1, db, di, k)
          ELSE uninitialized_copy_from(m1, sb, si, n, db, di, k + 1)

\* std::uninitialized_copy_n(first, n, d_first)
uninitialized_copy_n(m, sb, si, n, db, di) ==
  uninitialized_copy_from(m, sb, si, n, db, di, 0)

RECURSIVE uninitialized_move_from(_, _, _, _, _, _, _)
uninitialized_move_from(m, sb, si, n, db, di, k) ==
  IF m.exc \/ k >= n THEN m
  ELSE LET m0 == NoteRead(m, sb, si + k)
           m1 == MoveConstruct(m0, db, di + k, ReadCell(m, sb, si + k))
           m2 == MarkMoved(m1, sb, si + k)
       IN uninitialized_move_from(m2, sb, si, n, db, di, k + 1)

\* std::uninitialized_move_n(first, n, d_first)
uninitialized_move_n(m, sb, si, n, db, di) ==
  uninitialized_move_from(m, sb, si, n, db, di, 0)

RECURSIVE uninitialized_value_construct_from(_, _, _, _, _)
uninitialized_value_construct_from(m, b, i, n, k) ==
  IF m.exc \/ k >= n THEN m
  ELSE LET m1 == Construct(m, b, i + k, DefaultValue)
       IN IF m1.exc THEN destroy_n(m1, b, i, k)
          ELSE uninitialized_value_construct_from(m1, b, i, n, k + 1)

\* std::uninitialized_value_construct_n(first, n)
uninitialized_value_construct_n(m, b, i, n) ==
  uninitialized_value_construct_from(m, b, i, n, 0)

\* relocation as the handlers select it with if constexpr
\* (is_nothrow_move_constructible_v || !is_copy_constructible_v)
Relocate(m, sb, si, n, db, di) ==
  IF nothrow_move THEN uninitialized_move_n(m, sb, si, n, db, di)
  ELSE uninitialized_copy_n(m, sb, si, n, db, di)

\* one assignment *d = *s (copy) or *d = std::move(*s) (move)
AssignFrom(m, sb, si, db, di, mv) ==
  LET m0 == NoteRead(m, sb, si)
      val == ReadCell(m, sb, si)
  IN IF mv THEN MarkMoved(MoveAssign(m0, db, di, val), sb, si)
     ELSE CopyAssign(m0, db, di, val)

RECURSIVE copy_from(_, _, _, _, _, _, _, _)
copy_from(m, sb, si, n, db, di, mv, k) ==
  IF m.exc \/ k >= n THEN m
  ELSE copy_from(AssignFrom(m, sb, si + k, db, di + k, mv), sb, si, n, db, di, mv, k + 1)

\* std::copy_n(first, n, d_first), std::copy and std::move(first, last,
\* d_first): assignments front to back
copy_n(m, sb, si, n, db, di, mv) == copy_from(m, sb, si, n, db, di, mv, 0)

RECURSIVE copy_backward_from(_, _, _, _, _, _, _, _)
copy_backward_from(m, sb, si, n, db, di, mv, k) ==
  IF m.exc \/ k < 0 THEN m
  ELSE copy_backward_from(AssignFrom(m, sb, si + k, db, di + k, mv),
                          sb, si, n, db, di, mv, k - 1)

\* std::copy_backward / std::move_backward of the n elements from s[si] to
\* the range that starts at d[di]: assignments back to front
copy_backward(m, sb, si, n, db, di, mv) ==
  copy_backward_from(m, sb, si, n, db, di, mv, n - 1)

\* ------------------------------------------------------ Vector (lines 87-318)
Min(x, y) == IF x < y THEN x ELSE y

\* the elements operator[] shows: slots [0, size_) of the block
Contents(h, vc) == [i \in 1..vc.size |-> h[vc.buffer].cells[i]]

\* mutant of Reserve: no early return, every call reallocates
Reserve_always_reallocates(m, v, new_capacity) ==
  IF m.exc THEN m
  ELSE LET size == m.vec[v].size
           m1 == Allocate(m, new_capacity)
           m2 == Relocate(m1, m.vec[v].buffer, 0, size, m1.ret.blk, 0)
           s == RawMemorySwap(m2, v, [buffer |-> m1.ret.blk, capacity |-> new_capacity])
           m3 == destroy_n_stmt(s.m, s.tmp.buffer, 0, size)
       IN IF m1.exc THEN [m1 EXCEPT !.path = "realloc"]
          ELSE [Deallocate(m3, s.tmp.buffer) EXCEPT !.path = "realloc"]

\* mutant of Reserve: the new block is adopted before the elements are
\* relocated into it
Reserve_swaps_first(m, v, new_capacity) ==
  IF m.exc THEN m
  ELSE IF new_capacity <= m.vec[v].capacity THEN [m EXCEPT !.path = "noop"]
  ELSE LET size == m.vec[v].size
           m1 == Allocate(m, new_capacity)
           s == RawMemorySwap(m1, v, [buffer |-> m1.ret.blk, capacity |-> new_capacity])
           m2 == Relocate(s.m, s.tmp.buffer, 0, size, m1.ret.blk, 0)
           m3 == destroy_n_stmt(m2, s.tmp.buffer, 0, size)
       IN IF m1.exc THEN [m1 EXCEPT !.path = "realloc"]
          ELSE [Deallocate(m3, s.tmp.buffer) EXCEPT !.path = "realloc"]

\* Vector::Reserve
Reserve(m, v, new_capacity) ==
  IF m.exc THEN m
  ELSE IF new_capacity <= m.vec[v].capacity THEN [m EXCEPT !.path = "noop"]
  ELSE LET size == m.vec[v].size
           m1 == Allocate(m, new_capacity)
           m2 == Relocate(m1, m.vec[v].buffer, 0, size, m1.ret.blk, 0)
           s == RawMemorySwap(m2, v, [buffer |-> m1.ret.blk, capacity |-> new_capacity])
           m3 == destroy_n_stmt(s.m, s.tmp.buffer, 0, size)
       IN IF m1.exc THEN [m1 EXCEPT !.path = "realloc"]
          ELSE [Deallocate(m3, s.tmp.buffer) EXCEPT !.path = "realloc"]

\* Vector::Swap
Swap(m, v, w) ==
  IF m.exc THEN m
  ELSE [m EXCEPT !.vec[v].buffer = m.vec[w].buffer,
                 !.vec[v].capacity = m.vec[w].capacity,
                 !.vec[v].size = m.vec[w].size,
                 !.vec[w].buffer = m.vec[v].buffer,
                 !.vec[w].capacity = m.vec[v].capacity,
                 !.vec[w].size = m.vec[v].size]

\* mutant of Resize: size_ is set also when the construction threw
Resize_size_first(m, v, new_size) ==
  LET size == m.vec[v].size
      m1 == IF size > new_size
              THEN [destroy_n(m, m.vec[v].buffer, new_size, size - new_size)
                      EXCEPT !.path = "shrink"]
            ELSE IF new_size > size
              THEN LET r == Reserve(m, v, new_size)
                   IN [uninitialized_value_construct_n(r, r.vec[v].buffer, size, new_size - size)
                         EXCEPT !.path = "grow"]
            ELSE [m EXCEPT !.path = "same"]
  IN [m1 EXCEPT !.vec[v].size = new_size]

\* Vector::Resize
Resize(m, v, new_size) ==
  LET size == m.vec[v].size
      m1 == IF size > new_size
              THEN [destroy_n(m, m.vec[v].buffer, new_size, size - new_size)
                      EXCEPT !.path = "shrink"]
            ELSE IF new_size > size
              THEN LET r == Reserve(m, v, new_size)
                   IN [uninitialized_value_construct_n(r, r.vec[v].buffer, size, new_size - size)
                         EXCEPT !.path = "grow"]
            ELSE [m EXCEPT !.path = "same"]
  IN IF m1.exc THEN m1 ELSE [m1 EXCEPT !.vec[v].size = new_size]

\* mutant of PopBack: no check for the empty array
PopBack_unchecked(m, v) ==
  [Destroy(m, m.vec[v].buffer, m.vec[v].size - 1)
     EXCEPT !.vec[v].size = @ - 1, !.path = "pop"]

\* Vector::PopBack
PopBack(m, v) ==
  IF m.vec[v].size = 0 THEN [m EXCEPT !.path = "empty"]
  ELSE [Destroy(m, m.vec[v].buffer, m.vec[v].size - 1)
          EXCEPT !.vec[v].size = @ - 1, !.path = "pop"]

\* the argument of Insert / PushBack / Emplace: a reference either to an
\* object outside the array (ext, with value val) or to element idx of the
\* array itself
ExtArg(x) == [ext |-> TRUE, val |-> x, idx |-> 0]

RefArg(i) == [ext |-> FALSE, val |-> 0, idx |-> i]

ArgValue(m, v, arg) ==
  IF arg.ext THEN arg.val ELSE ReadCell(m, m.vec[v].buffer, arg.idx)

\* mutant of NewCapacity: growth by one slot
NewCapacity_plus_one(size) == size + 1

\* size_ == 0 ? 1 : size_ * 2
NewCapacity(size) == IF size = 0 THEN 1 ELSE size * 2

\* mutant of EmplaceRealloc: the suffix is relocated to index instead of
\* index + 1
EmplaceRealloc_suffix_at_index(m, v, index, arg) ==
  LET size == m.vec[v].size
      old == m.vec[v].buffer
      new_capacity == NewCapacity(size)
      m1 == Allocate(m, new_capacity)
      nb == m1.ret.blk
      m2 == Construct(IF arg.ext THEN m1 ELSE NoteRead(m1, old, arg.idx),
                      nb, index, ArgValue(m1, v, arg))
      m3 == Relocate(m2, old, 0, index, nb, 0)
      m4 == Relocate(m3, old, index, size - index, nb, index)
      m5 == destroy_n_stmt(m4, old, 0, size)
      s == RawMemorySwap(m5, v, [buffer |-> nb, capacity |-> new_capacity])
      m6 == IF s.m.exc THEN s.m ELSE [s.m EXCEPT !.ret = [blk |-> nb, off |-> index]]
  IN IF m1.exc THEN [m1 EXCEPT !.path = "realloc"]
     ELSE [Deallocate(m6, s.tmp.buffer) EXCEPT !.path = "realloc"]

\* Vector::Emplace, the branch size_ == Capacity(): build the new block
\* around the new element, destroy the old elements, adopt the new block
EmplaceRealloc(m, v, index, arg) ==
  LET size == m.vec[v].size
      old == m.vec[v].buffer
      new_capacity == NewCapacity(size)
      m1 == Allocate(m, new_capacity)
      nb == m1.ret.blk
      m2 == Construct(IF arg.ext THEN m1 ELSE NoteRead(m1, old, arg.idx),
                      nb, index, ArgValue(m1, v, arg))
      m3 == Relocate(m2, old, 0, index, nb, 0)
      m4 == Relocate(m3, old, index, size - index, nb, index + 1)
      m5 == destroy_n_stmt(m4, old, 0, size)
      s == RawMemorySwap(m5, v, [buffer |-> nb, capacity |-> new_capacity])
      m6 == IF s.m.exc THEN s.m ELSE [s.m EXCEPT !.ret = [blk |-> nb, off |-> index]]
  IN IF m1.exc THEN [m1 EXCEPT !.path = "realloc"]
     ELSE [Deallocate(m6, s.tmp.buffer) EXCEPT !.path = "realloc"]

\* mutant of EmplaceShift: the span [index, size_ - 1) is not shifted
EmplaceShift_without_shift(m, v, index, arg) ==
  LET size == m.vec[v].size
      buf == m.vec[v].buffer
      m0 == Fallible(IF arg.ext THEN m ELSE NoteRead(m, buf, arg.idx))
      new_elem == ArgValue(m, v, arg)
      m1 == [m0 EXCEPT !.ctors = @ + 1]
      m2 == IF nothrow_move
              THEN MarkMoved(MoveConstruct(NoteRead(m1, buf, size - 1), buf, size,
                                           ReadCell(m1, buf, size - 1)),
                             buf, size - 1)
              ELSE Construct(NoteRead(m1, buf, size - 1), buf, size,
                             ReadCell(m1, buf, size - 1))
      m4 == IF nothrow_move THEN MoveAssign(m2, buf, index, new_elem)
            ELSE CopyAssign(m2, buf, index, new_elem)
      m5 == IF m4.exc THEN m4 ELSE [m4 EXCEPT !.ret = [blk |-> buf, off |-> index]]
  IN IF m0.exc THEN [m0 EXCEPT !.path = "shift"]
     ELSE [m5 EXCEPT !.dtors = @ + 1, !.path = "shift"]

\* mutant of EmplaceShift: the argument is read after the shift
EmplaceShift_reads_arg_late(m, v, index, arg) ==
  LET size == m.vec[v].size
      buf == m.vec[v].buffer
      m0 == Fallible(IF arg.ext THEN m ELSE NoteRead(m, buf, arg.idx))
      m1 == [m0 EXCEPT !.ctors = @ + 1]
      m2 == IF nothrow_move
              THEN MarkMoved(MoveConstruct(NoteRead(m1, buf, size - 1), buf, size,
                                           ReadCell(m1, buf, size - 1)),
                             buf, size - 1)
              ELSE Construct(NoteRead(m1, buf, size - 1), buf, size,
                             ReadCell(m1, buf, size - 1))
      m3 == copy_backward(m2, buf, index, size - 1 - index, buf, index + 1, nothrow_move)
      new_elem == ArgValue(m3, v, arg)
      m4 == IF nothrow_move THEN MoveAssign(m3, buf, index, new_elem)
            ELSE CopyAssign(m3, buf, index, new_elem)
      m5 == IF m4.exc THEN m4 ELSE [m4 EXCEPT !.ret = [blk |-> buf, off |-> index]]
  IN IF m0.exc THEN [m0 EXCEPT !.path = "shift"]
     ELSE [m5 EXCEPT !.dtors = @ + 1, !.path = "shift"]

\* Vector::Emplace, the branch size_ != 0 && pos != end() with spare
\* capacity: a local new_elem, the last element relocated into the raw
\* slot, the span shifted right by assignment, new_elem assigned at index
EmplaceShift(m, v, index, arg) ==
  LET size == m.vec[v].size
      buf == m.vec[v].buffer
      m0 == Fallible(IF arg.ext THEN m ELSE NoteRead(m, buf, arg.idx))
      new_elem == ArgValue(m, v, arg)
      m1 == [m0 EXCEPT !.ctors = @ + 1]
      m2 == IF nothrow_move
              THEN MarkMoved(MoveConstruct(NoteRead(m1, buf, size - 1), buf, size,
                                           ReadCell(m1, buf, size - 1)),
                             buf, size - 1)
              ELSE Construct(NoteRead(m1, buf, size - 1), buf, size,
                             ReadCell(m1, buf, size - 1))
      m3 == copy_backward(m2, buf, index, size - 1 - index, buf, index + 1, nothrow_move)
      m4 == IF nothrow_move THEN MoveAssign(m3, buf, index, new_elem)
            ELSE CopyAssign(m3, buf, index, new_elem)
      m5 == IF m4.exc THEN m4 ELSE [m4 EXCEPT !.ret = [blk |-> buf, off |-> index]]
  IN IF m0.exc THEN [m0 EXCEPT !.path = "shift"]
     ELSE [m5 EXCEPT !.dtors = @ + 1, !.path = "shift"]

\* Vector::Emplace, the last branch: construct at data_ + size_
EmplaceAppend(m, v, index, arg) ==
  LET size == m.vec[v].size
      buf == m.vec[v].buffer
      m1 == Construct(IF arg.ext THEN m ELSE NoteRead(m, buf, arg.idx),
                      buf, size, ArgValue(m, v, arg))
  IN IF m1.exc THEN [m1 EXCEPT !.path = "append"]
     ELSE [m1 EXCEPT !.ret = [blk |-> buf, off |-> size], !.path = "append"]

\* Vector::Emplace(pos, args...) with index = pos - begin()
Emplace(m, v, index, arg) ==
  LET size == m.vec[v].size
      m1 == IF size = m.vec[v].capacity THEN EmplaceRealloc(m, v, index, arg)
            ELSE IF size /= 0 /\ index /= size THEN EmplaceShift(m, v, index, arg)
            ELSE EmplaceAppend(m, v, index, arg)
  IN IF m1.exc THEN m1 ELSE [m1 EXCEPT !.vec[v].size = @ + 1]

\* Vector::Insert(pos, const Type&)
Insert(m, v, index, arg) == Emplace(m, v, index, arg)

\* Vector::EmplaceBack: Emplace(cend(), args...)
EmplaceBack(m, v, arg) == Emplace(m, v, m.vec[v].size, arg)

\* Vector::PushBack(const Type&)
PushBack(m, v, arg) == EmplaceBack(m, v, arg)

\* mutant of Erase: the last element is destroyed without the shift
Erase_without_shift(m, v, index) ==
  LET size == m.vec[v].size
      buf == m.vec[v].buffer
      m2 == Destroy(m, buf, size - 1)
  IN [m2 EXCEPT !.vec[v].size = @ - 1,
                !.ret = [blk |-> m2.vec[v].buffer, off |-> index],
                !.path = "erase"]

\* Vector::Erase(pos) with index = pos - begin()
Erase(m, v, index) ==
  LET size == m.vec[v].size
      buf == m.vec[v].buffer
      m1 == copy_n(m, buf, index + 1, size - index - 1, buf, index, nothrow_move)
      m2 == IF m1.exc THEN m1 ELSE Destroy(m1, buf, size - 1)
  IN IF m2.exc THEN [m2 EXCEPT !.path = "erase"]
     ELSE [m2 EXCEPT !.vec[v].size = @ - 1,
                     !.ret = [blk |-> m2.vec[v].buffer, off |-> index],
                     !.path = "erase"]

\* Vector::FillFromOther(other): this is vector v, other is vector w
FillFromOther(m, v, w) ==
  LET size == m.vec[v].size
      buf == m.vec[v].buffer
      obuf == m.vec[w].buffer
      osize == m.vec[w].size
      index == Min(osize, size)
      m1 == copy_n(m, obuf, 0, index, buf, 0, FALSE)
      m2 == destroy_n_stmt(m1, buf, index, size - index)
      m3 == uninitialized_copy_n(m2, obuf, index + 1, osize - index, buf, index)
  IN IF m3.exc THEN m3 ELSE [m3 EXCEPT !.vec[v].size = osize]

\* mutant of VectorCopy: the new vector takes the handle of the other one
VectorCopy_shallow(m, w) ==
  IF m.exc THEN m
  ELSE [m EXCEPT !.tmp = [alive |-> TRUE, buffer |-> m.vec[w].buffer,
                          capacity |-> m.vec[w].capacity, size |-> m.vec[w].size]]

\* Vector::Vector(const Vector& other): the new vector is left in field tmp;
\* when the copy throws, the member data_ is released and nothing is built
VectorCopy(m, w) ==
  LET osize == m.vec[w].size
      m1 == Allocate(m, osize)
      m2 == uninitialized_copy_n(m1, m.vec[w].buffer, 0, osize, m1.ret.blk, 0)
  IN IF m1.exc THEN m1
     ELSE IF m2.exc THEN Deallocate(m2, m1.ret.blk)
     ELSE [m2 EXCEPT !.tmp = [alive |-> TRUE, buffer |-> m1.ret.blk,
                              capacity |-> osize, size |-> osize]]

\* Vector::Vector(size_t size)
VectorSized(m, size) ==
  LET m1 == Allocate(m, size)
      m2 == uninitialized_value_construct_n(m1, m1.ret.blk, 0, size)
  IN IF m1.exc THEN m1
     ELSE IF m2.exc THEN Deallocate(m2, m1.ret.blk)
     ELSE [m2 EXCEPT !.tmp = [alive |-> TRUE, buffer |-> m1.ret.blk,
                              capacity |-> size, size |-> size]]

\* Vector::~Vector followed by ~RawMemory, for a vector value t
VectorDtor(m, t) == Deallocate(destroy_n(m, t.buffer, 0, t.size), t.buffer)

\* Vector::Vector(Vector&& rhs): the members are default-initialised, then
\* Swap(rhs); this is vector v, rhs is vector w
VectorMove(m, v, w) == Swap([m EXCEPT !.vec[v] = EmptyVector], v, w)

\* an element write v[index] = x: operator[] and the copy assignment of the
\* element type
WriteElement(m, v, index, x) ==
  [CopyAssign(m, m.vec[v].buffer, index, x) EXCEPT !.path = "write"]

\* mutant of CopyAssignment: the grow path destroys the target's elements
\* before it builds the copy
CopyAssignment_clears_first(m, v, w) ==
  IF v = w THEN [m EXCEPT !.path = "self"]
  ELSE IF m.vec[w].size > m.vec[v].capacity
    THEN LET m0 == [destroy_n(m, m.vec[v].buffer, 0, m.vec[v].size)
                      EXCEPT !.vec[v].size = 0]
             m1 == VectorCopy(m0, w)
             rhs_copy == m1.tmp
             m2 == [m1 EXCEPT !.vec[v].buffer = rhs_copy.buffer,
                              !.vec[v].capacity = rhs_copy.capacity,
                              !.vec[v].size = rhs_copy.size]
             swapped == [rhs_copy EXCEPT !.buffer = m1.vec[v].buffer,
                                         !.capacity = m1.vec[v].capacity,
                                         !.size = m1.vec[v].size]
         IN IF m1.exc THEN [m1 EXCEPT !.path = "copy_swap"]
            ELSE [VectorDtor(m2, swapped) EXCEPT !.path = "copy_swap"]
    ELSE [FillFromOther(m, v, w) EXCEPT
            !.path = IF m.vec[w].size > m.vec[v].size THEN "fill_grow" ELSE "fill_shrink"]

\* mutant of CopyAssignment: no test for this == &rhs
CopyAssignment_without_self_check(m, v, w) ==
  IF m.vec[w].size > m.vec[v].capacity
    THEN LET m1 == VectorCopy(m, w)
             rhs_copy == m1.tmp
             m2 == [m1 EXCEPT !.vec[v].buffer = rhs_copy.buffer,
                              !.vec[v].capacity = rhs_copy.capacity,
                              !.vec[v].size = rhs_copy.size]
             swapped == [rhs_copy EXCEPT !.buffer = m1.vec[v].buffer,
                                         !.capacity = m1.vec[v].capacity,
                                         !.size = m1.vec[v].size]
         IN IF m1.exc THEN [m1 EXCEPT !.path = "copy_swap"]
            ELSE [VectorDtor(m2, swapped) EXCEPT !.path = "copy_swap"]
    ELSE [FillFromOther(m, v, w) EXCEPT
            !.path = IF m.vec[w].size > m.vec[v].size THEN "fill_grow" ELSE "fill_shrink"]

\* Vector::operator=(const Vector& rhs): this is vector v, rhs is vector w
CopyAssignment(m, v, w) ==
  IF v = w THEN [m EXCEPT !.path = "self"]
  ELSE IF m.vec[w].size > m.vec[v].capacity
    THEN LET m1 == VectorCopy(m, w)
             rhs_copy == m1.tmp
             m2 == [m1 EXCEPT !.vec[v].buffer = rhs_copy.buffer,
                              !.vec[v].capacity = rhs_copy.capacity,
                              !.vec[v].size = rhs_copy.size]
             swapped == [rhs_copy EXCEPT !.buffer = m1.vec[v].buffer,
                                         !.capacity = m1.vec[v].capacity,
                                         !.size = m1.vec[v].size]
         IN IF m1.exc THEN [m1 EXCEPT !.path = "copy_swap"]
            ELSE [VectorDtor(m2, swapped) EXCEPT !.path = "copy_swap"]
    ELSE [FillFromOther(m, v, w) EXCEPT
            !.path = IF m.vec[w].size > m.vec[v].size THEN "fill_grow" ELSE "fill_shrink"]

\* Vector::operator=(Vector&& rhs)
MoveAssignment(m, v, w) ==
  IF v = w THEN [m EXCEPT !.path = "self"] ELSE [Swap(m, v, w) EXCEPT !.path = "swap"]

\* ------------------------------------------------------------------ actions
\* the reference sequence follows pushes and pops while it is tracked
NoRef == [on |-> FALSE, seq |-> <<>>]

\* vector v as it is stored after a call that ended in machine m
Stored(m, v) ==
  [alive |-> m.vec[v].alive,
   capacity |-> m.vec[v].capacity,
   size |-> m.vec[v].size,
   cells |-> IF m.vec[v].buffer = nullptr THEN <<>> ELSE m.heap[m.vec[v].buffer].cells]

\* exclusive ownership at the end of a call: every vector holds an allocated
\* block of its capacity or none, no two vectors hold the same block and no
\* allocated block is without an owner
Exclusive(m) ==
  /\ \A v \in Vecs :
       IF m.vec[v].alive /\ m.vec[v].capacity > 0
         THEN /\ m.vec[v].buffer \in BlockIds
              /\ m.heap[m.vec[v].buffer].alloc
              /\ Len(m.heap[m.vec[v].buffer].cells) = m.vec[v].capacity
         ELSE m.vec[v].buffer = nullptr
  /\ \A v \in Vecs, w \in Vecs :
       (v /= w /\ m.vec[v].buffer /= nullptr) => m.vec[v].buffer /= m.vec[w].buffer
  /\ \A b \in BlockIds :
       m.heap[b].alloc => \E v \in Vecs : m.vec[v].alive /\ m.vec[v].buffer = b

\* every block allocated before or during the call is either still allocated
\* or was released exactly once
BlockBalance(m) ==
  Cardinality({b \in BlockIds : HeapNow[b].alloc}) + m.allocs - m.frees
    = Cardinality({b \in BlockIds : m.heap[b].alloc})

\* the outcome of a call. index: the index of an Insert or Erase; undo: the
\* call was an Erase at the index of the successful Insert right before it;
\* self: the argument of the Insert or PushBack referred to an element of
\* the array itself; exclusive: ownership was exclusive when the call ended;
\* balanced: the call released no block twice
Outcome(m, op) ==
  [op |-> op, path |-> m.path, thrown |-> m.exc, index |-> 0, undo |-> FALSE,
   self |-> FALSE, exclusive |-> Exclusive(m), balanced |-> BlockBalance(m)]

\* a call returned or threw
FinishWith(m, out) ==
  /\ vec' = [v \in Vecs |-> Stored(m, v)]
  /\ last' = out
  /\ UNCHANGED nothrow_move

Finish(m, op) == FinishWith(m, Outcome(m, op))

\* a constructor returned (the object in field tmp becomes vector v) or threw
FinishCtor(m, op, v) ==
  Finish(IF m.exc THEN m ELSE [m EXCEPT !.vec[v] = m.tmp], op)

\* the attempts at which a call that makes n of them can be made to fail
FailPoints(n) == 0..n

\* the arguments that refer to an element of vector v itself
SelfArgs(v) == {RefArg(i) : i \in 0..(vec[v].size - 1)}

Args(v) == {ExtArg(x) : x \in Values} \cup SelfArgs(v)

DoDefaultCtor(v) ==
  /\ ~vec[v].alive
  /\ FinishCtor(Machine(0, 1), "Vector", v)
  /\ ref' = NoRef

DoSizedCtor(v, size) ==
  /\ ~vec[v].alive
  /\ \E failAt \in FailPoints(VectorSized(Machine(0, 1), size).n) :
       FinishCtor(VectorSized(Machine(failAt, 1), size), "VectorSized", v)
  /\ ref' = NoRef

DoCopyCtor(v, w) ==
  /\ ~vec[v].alive
  /\ vec[w].alive
  /\ \E failAt \in FailPoints(VectorCopy(Machine(0, 1), w).n) :
       FinishCtor(VectorCopy(Machine(failAt, 1), w), "VectorCopy", v)
  /\ ref' = NoRef

\* Vector::Vector(Vector&& rhs): a default-initialised vector, then Swap(rhs)
DoMoveCtor(v, w) ==
  /\ ~vec[v].alive
  /\ vec[w].alive
  /\ Finish(VectorMove(Machine(0, 1), v, w), "VectorMove")
  /\ ref' = NoRef

DoDtor(v) ==
  /\ vec[v].alive
  /\ LET m == Machine(0, 1)
     IN Finish([VectorDtor(m, m.vec[v]) EXCEPT !.vec[v] = DeadVector], "~Vector")
  /\ ref' = NoRef

DoCopyAssignment(v, w) ==
  /\ vec[v].alive
  /\ vec[w].alive
  /\ \E junk \in Values :
       \E failAt \in FailPoints(CopyAssignment(Machine(0, junk), v, w).n) :
         Finish(CopyAssignment(Machine(failAt, junk), v, w), "CopyAssignment")
  /\ ref' = NoRef

DoMoveAssignment(v, w) ==
  /\ vec[v].alive
  /\ vec[w].alive
  /\ Finish(MoveAssignment(Machine(0, 1), v, w), "MoveAssignment")
  /\ ref' = NoRef

DoSwap(v, w) ==
  /\ vec[v].alive
  /\ vec[w].alive
  /\ Finish(Swap(Machine(0, 1), v, w), "Swap")
  /\ ref' = NoRef

DoReserve(v, new_capacity) ==
  /\ vec[v].alive
  /\ \E failAt \in FailPoints(Reserve(Machine(0, 1), v, new_capacity).n) :
       Finish(Reserve(Machine(failAt, 1), v, new_capacity), "Reserve")
  /\ ref' = NoRef

DoResize(v, new_size) ==
  /\ vec[v].alive
  /\ \E failAt \in FailPoints(Resize(Machine(0, 1), v, new_size).n) :
       Finish(Resize(Machine(failAt, 1), v, new_size), "Resize")
  /\ ref' = NoRef

\* the capacity bound of the model: a reallocating insertion is taken only
\* while the doubled capacity stays within cap
CanGrow(v, cap) ==
  vec[v].size < vec[v].capacity \/ NewCapacity(vec[v].size) <= cap

DoPushBack(v, arg, cap) ==
  /\ vec[v].alive
  /\ CanGrow(v, cap)
  /\ \E failAt \in FailPoints(PushBack(Machine(0, 1), v, arg).n) :
       LET m == PushBack(Machine(failAt, 1), v, arg)
       IN /\ FinishWith(m, [Outcome(m, "PushBack") EXCEPT !.self = ~arg.ext])
          /\ ref' = IF ref.on /\ ~m.exc
                      THEN [ref EXCEPT !.seq = Append(@, ArgValue(Machine(0, 1), v, arg))]
                      ELSE ref

DoPopBack(v) ==
  /\ vec[v].alive
  /\ Finish(PopBack(Machine(0, 1), v), "PopBack")
  /\ ref' = IF ref.on /\ ref.seq /= <<>>
              THEN [ref EXCEPT !.seq = SubSeq(@, 1, Len(@) - 1)]
              ELSE ref

DoInsert(v, index, arg, cap) ==
  /\ vec[v].alive
  /\ CanGrow(v, cap)
  /\ index <= vec[v].size
  /\ \E failAt \in FailPoints(Insert(Machine(0, 1), v, index, arg).n) :
       LET m == Insert(Machine(failAt, 1), v, index, arg)
       IN FinishWith(m, [Outcome(m, "Insert") EXCEPT !.index = index,
                                                      !.self = ~arg.ext])
  /\ ref' = NoRef

DoErase(v, index) ==
  /\ vec[v].alive
  /\ index < vec[v].size
  /\ \E failAt \in FailPoints(Erase(Machine(0, 1), v, index).n) :
       LET m == Erase(Machine(failAt, 1), v, index)
       IN FinishWith(m, [Outcome(m, "Erase") EXCEPT
                           !.index = index,
                           !.undo = last.op = "Insert" /\ ~last.thrown /\ last.index = index])
  /\ ref' = NoRef

DoWrite(v, index, x) ==
  /\ vec[v].alive
  /\ index < vec[v].size
  /\ \E failAt \in FailPoints(WriteElement(Machine(0, 1), v, index, x).n) :
       Finish(WriteElement(Machine(failAt, 1), v, index, x), "Write")
  /\ ref' = NoRef

DoRawMemoryCtor(v, capacity) ==
  /\ ~vec[v].alive
  /\ \E failAt \in FailPoints(RawMemoryCtor(Machine(0, 1), capacity).n) :
       FinishCtor(RawMemoryCtor(Machine(failAt, 1), capacity), "RawMemory", v)
  /\ ref' = NoRef

DoRawMemoryMoveCtor(v, w) ==
  /\ ~vec[v].alive
  /\ vec[w].alive
  /\ Finish(RawMemoryMoveCtor(Machine(0, 1), v, w), "RawMemoryMove")
  /\ ref' = NoRef

DoRawMemoryMoveAssignment(v, w) ==
  /\ vec[v].alive
  /\ vec[w].alive
  /\ Finish(RawMemoryMoveAssignment(Machine(0, 1), v, w), "RawMemoryMoveAssignment")
  /\ ref' = NoRef

DoRawMemorySwap(v, w) ==
  /\ vec[v].alive
  /\ vec[w].alive
  /\ Finish(RawSwap(Machine(0, 1), v, w), "RawMemorySwap")
  /\ ref' = NoRef

DoRawMemoryDtor(v) ==
  /\ vec[v].alive
  /\ Finish(RawMemoryDtor(Machine(0, 1), v), "~RawMemory")
  /\ ref' = NoRef

NoCall == Outcome(Machine(0, 1), "Vector")

\* one default-constructed vector
Init ==
  /\ vec = [v \in Vecs |-> IF v = 1 THEN StoredEmpty ELSE StoredDead]
  /\ nothrow_move \in BOOLEAN
  /\ last = NoCall
  /\ ref = NoRef

\* the operations of one vector
Next ==
  \/ DoDefaultCtor(1)
  \/ \E size \in 0..MaxCap : DoSizedCtor(1, size)
  \/ DoDtor(1)
  \/ \E n \in 0..MaxCap : DoReserve(1, n)
  \/ \E n \in 0..MaxCap : DoResize(1, n)
  \/ \E x \in Values : DoPushBack(1, ExtArg(x), MaxCap)
  \/ DoPopBack(1)
  \/ \E index \in 0..MaxCap : \E x \in Values : DoInsert(1, index, ExtArg(x), MaxCap)
  \/ \E index \in 0..MaxCap : DoErase(1, index)

Spec == Init /\ [][Next]_vars

\* two default-constructed vectors
InitPair ==
  /\ vec = [v \in Vecs |-> StoredEmpty]
  /\ nothrow_move \in BOOLEAN
  /\ last = NoCall
  /\ ref = NoRef

\* copy assignment a = b: the target a is reserved, pushed and popped, the
\* source b is pushed and popped
NextPair ==
  \/ DoCopyAssignment(1, 2)
  \/ \E n \in 0..PairCap : DoReserve(1, n)
  \/ \E v \in Vecs, x \in Values : DoPushBack(v, ExtArg(x), PairCap)
  \/ \E v \in Vecs : DoPopBack(v)

SpecPair == InitPair /\ [][NextPair]_vars

\* one empty vector and its reference sequence
InitPushPop ==
  /\ vec = [v \in Vecs |-> IF v = 1 THEN StoredEmpty ELSE StoredDead]
  /\ nothrow_move \in BOOLEAN
  /\ last = NoCall
  /\ ref = [on |-> TRUE, seq |-> <<>>]

NextPushPop ==
  \/ \E arg \in Args(1) : DoPushBack(1, arg, MaxPush)
  \/ DoPopBack(1)

SpecPushPop == InitPushPop /\ [][NextPushPop]_vars

\* one empty vector; values from outside are pushed, elements of the array
\* itself are inserted
InitSelf ==
  /\ vec = [v \in Vecs |-> IF v = 1 THEN StoredEmpty ELSE StoredDead]
  /\ nothrow_move \in BOOLEAN
  /\ last = NoCall
  /\ ref = NoRef

NextSelf ==
  \/ \E x \in Values : DoPushBack(1, ExtArg(x), MaxPush)
  \/ \E index \in 0..MaxPush : \E arg \in SelfArgs(1) : DoInsert(1, index, arg, MaxPush)
  \/ DoPopBack(1)

SpecSelf == InitSelf /\ [][NextSelf]_vars

\* two vectors, a default-constructed and b not yet constructed, that are
\* constructed, copied, moved, swapped, changed and destroyed
InitOwn ==
  /\ vec = [v \in Vecs |-> IF v = 1 THEN StoredEmpty ELSE StoredDead]
  /\ nothrow_move \in BOOLEAN
  /\ last = NoCall
  /\ ref = NoRef

NextOwn ==
  \/ \E v \in Vecs : DoDefaultCtor(v)
  \/ \E v \in Vecs, w \in Vecs : DoCopyCtor(v, w)
  \/ \E v \in Vecs, w \in Vecs : DoMoveCtor(v, w)
  \/ \E v \in Vecs : DoDtor(v)
  \/ \E v \in Vecs, w \in Vecs : DoCopyAssignment(v, w)
  \/ \E v \in Vecs, w \in Vecs : DoMoveAssignment(v, w)
  \/ \E v \in Vecs, w \in Vecs : DoSwap(v, w)
  \/ \E v \in Vecs, x \in Values : DoPushBack(v, ExtArg(x), OwnCap)
  \/ \E v \in Vecs, index \in 0..OwnCap : DoErase(v, index)
  \/ \E v \in Vecs, index \in 0..OwnCap, x \in Values : DoWrite(v, index, x)

SpecOwn == InitOwn /\ [][NextOwn]_vars

\* two RawMemory objects, the first default-constructed and the second not
\* yet constructed
InitRaw ==
  /\ vec = [v \in Vecs |-> IF v = 1 THEN StoredEmpty ELSE StoredDead]
  /\ nothrow_move \in BOOLEAN
  /\ last = NoCall
  /\ ref = NoRef

NextRaw ==
  \/ \E v \in Vecs, capacity \in 0..RawCap : DoRawMemoryCtor(v, capacity)
  \/ \E v \in Vecs, w \in Vecs : DoRawMemoryMoveCtor(v, w)
  \/ \E v \in Vecs, w \in Vecs : DoRawMemoryMoveAssignment(v, w)
  \/ \E v \in Vecs, w \in Vecs : DoRawMemorySwap(v, w)
  \/ \E v \in Vecs : DoRawMemoryDtor(v)

SpecRaw == InitRaw /\ [][NextRaw]_vars

TypeOK ==
  /\ \A v \in Vecs :
       /\ vec[v].size \in 0..vec[v].capacity
       /\ Len(vec[v].cells) = vec[v].capacity
  /\ nothrow_move \in BOOLEAN

\* ------------------------------------------------------------- properties
\* a call in which nothing fails; its heap and vectors are the state before
\* the call
Call == Machine(0, 1)

\* the elements of vector v now, and after a call that ended in machine m
Elems(v) == [i \in 1..vec[v].size |-> vec[v].cells[i]]

After(m, v) == Contents(m.heap, m.vec[v])

\* the call changed neither a vector nor the heap
Untouched(m) == m.vec = VecNow /\ m.heap = HeapNow

\* s with x put before its element k + 1, and s without its element k + 1
InsertAt(s, k, x) ==
  [i \in 1..(Len(s) + 1) |-> IF i <= k THEN s[i] ELSE IF i = k + 1 THEN x ELSE s[i - 1]]

RemoveAt(s, k) == [i \in 1..(Len(s) - 1) |-> IF i <= k THEN s[i] ELSE s[i + 1]]

\* C1 (as claimed): copy assignment a = b between two distinct arrays, when
\* nothing fails, leaves a with b's size and b's elements and leaves b
\* unchanged, whatever a.Size(), a.Capacity() and b.Size() are.
C1_CopyAssignmentCopies ==
  \A junk \in Values :
    LET m == CopyAssignment(Machine(0, junk), 1, 2)
    IN /\ ~m.exc
       /\ m.vec[1].size = vec[2].size
       /\ After(m, 1) = Elems(2)
       /\ m.vec[2] = VecNow[2]
       /\ After(m, 2) = Elems(2)

\* the array invariant of one vector: size <= capacity, slots [0, size) hold
\* objects, slots [size, capacity) hold none
ArrayInvariant(vc) ==
  vc.alive =>
    /\ vc.size <= vc.capacity
    /\ Len(vc.cells) = vc.capacity
    /\ \A i \in 1..vc.capacity : Live(vc.cells[i]) <=> i <= vc.size

\* C2 (as claimed): after every public operation, also one that failed
\* partway, Size() <= Capacity(), exactly the slots [0, Size()) hold live
\* elements and the slots [Size(), Capacity()) hold none.
C2_ArrayInvariantAlways == \A v \in Vecs : ArrayInvariant(vec[v])

\* C3: after any sequence of PushBack and PopBack on an initially empty
\* array the elements equal the reference sequence (append on push, drop
\* the last on pop), so Size() is pushes minus effective pops and the order
\* is insertion order; PopBack on an empty array changes nothing and does
\* not throw.
C3_PushPopMatchesReference ==
  ref.on =>
    /\ vec[1].size = Len(ref.seq)
    /\ Elems(1) = ref.seq
    /\ vec[1].size = 0 =>
         LET m == PopBack(Call, 1)
         IN ~m.exc /\ Untouched(m)

C3_Witness ==
  /\ ref.on
  /\ last.op = "PopBack"
  /\ last.path = "pop"
  /\ Len(ref.seq) >= 2
  /\ ref.seq[1] /= ref.seq[2]

\* C4: for every index k <= Size() and value x, Insert(begin()+k, x) yields
\* old[0..k), x, old[k..oldSize), size oldSize + 1, and returns begin()+k of
\* the resulting array, on the reallocating, shifting and appending paths.
C4_InsertPlacesAndReturns ==
  vec[1].alive =>
    \A k \in 0..vec[1].size, x \in Values :
      CanGrow(1, MaxCap) =>
        LET m == Insert(Call, 1, k, ExtArg(x))
        IN /\ ~m.exc
           /\ After(m, 1) = InsertAt(Elems(1), k, x)
           /\ m.vec[1].size = vec[1].size + 1
           /\ m.ret = [blk |-> m.vec[1].buffer, off |-> k]
           /\ m.path = IF vec[1].size = vec[1].capacity THEN "realloc"
                       ELSE IF k < vec[1].size THEN "shift" ELSE "append"

C4_Witness ==
  /\ last.op = "Insert"
  /\ last.path = "shift"
  /\ ~last.thrown
  /\ last.index = 0
  /\ vec[1].size >= 3

\* C5: for every index k < Size(), Erase(begin()+k) yields old[0..k),
\* old[k+1..oldSize), size oldSize - 1, the same capacity, and returns
\* begin()+k: the element that followed the erased one, or end().
C5_EraseRemovesAndReturns ==
  vec[1].alive =>
    \A k \in 0..(vec[1].size - 1) :
      LET m == Erase(Call, 1, k)
          old == Elems(1)
      IN /\ ~m.exc
         /\ After(m, 1) = RemoveAt(old, k)
         /\ m.vec[1].size = vec[1].size - 1
         /\ m.vec[1].capacity = vec[1].capacity
         /\ m.ret = [blk |-> m.vec[1].buffer, off |-> k]
         /\ IF k = vec[1].size - 1 THEN m.ret.off = m.vec[1].size
            ELSE ReadCell(m, m.ret.blk, m.ret.off) = old[k + 2]

C5_Witness ==
  /\ last.op = "Erase"
  /\ ~last.thrown
  /\ last.index = 0
  /\ vec[1].size >= 2

\* C6: for every index k <= Size() and value x, Insert(begin()+k, x)
\* followed by Erase(begin()+k) gives back the size and the element
\* sequence from before the Insert, with or without reallocation.
C6_InsertEraseRoundTrip ==
  vec[1].alive =>
    \A k \in 0..vec[1].size, x \in Values :
      CanGrow(1, MaxCap) =>
        LET m1 == Insert(Call, 1, k, ExtArg(x))
            m2 == Erase(m1, 1, k)
        IN /\ ~m2.exc
           /\ m2.vec[1].size = vec[1].size
           /\ After(m2, 1) = Elems(1)

C6_Witness ==
  /\ last.op = "Erase"
  /\ last.undo
  /\ ~last.thrown
  /\ vec[1].size >= 2

\* C7: Reserve(n) never lowers Capacity(), keeps Size() and every element
\* value, and leaves Capacity() >= n; for n <= Capacity() it allocates
\* nothing and keeps the block.
C7_ReserveFrame ==
  vec[1].alive =>
    \A n \in 0..MaxCap :
      LET m == Reserve(Call, 1, n)
      IN /\ ~m.exc
         /\ m.vec[1].capacity >= vec[1].capacity
         /\ m.vec[1].capacity >= n
         /\ m.vec[1].size = vec[1].size
         /\ After(m, 1) = Elems(1)
         /\ n <= vec[1].capacity =>
              /\ m.allocs = 0
              /\ m.frees = 0
              /\ Untouched(m)

C7_Witness ==
  /\ last.op = "Reserve"
  /\ last.path = "realloc"
  /\ ~last.thrown
  /\ vec[1].size >= 2

\* C8 (as claimed): when Insert/Emplace or Erase fails partway, the size,
\* the capacity and all element values are as before the call.
C8_InsertEraseStrong ==
  vec[1].alive =>
    /\ \A k \in 0..vec[1].size, x \in Values :
         CanGrow(1, MaxCap) =>
           \A failAt \in FailPoints(Insert(Call, 1, k, ExtArg(x)).n) :
             LET m == Insert(Machine(failAt, 1), 1, k, ExtArg(x))
             IN m.exc => /\ m.vec[1] = VecNow[1]
                         /\ After(m, 1) = Elems(1)
    /\ \A k \in 0..(vec[1].size - 1) :
         \A failAt \in FailPoints(Erase(Call, 1, k).n) :
           LET m == Erase(Machine(failAt, 1), 1, k)
           IN m.exc => /\ m.vec[1] = VecNow[1]
                       /\ After(m, 1) = Elems(1)

\* C9 (as claimed): when a = b fails at any attempt, a's size, capacity and
\* element values are as before the call, on the copy-and-swap path and on
\* the in-place path.
C9_CopyAssignmentStrong ==
  \A junk \in Values :
    \A failAt \in FailPoints(CopyAssignment(Machine(0, junk), 1, 2).n) :
      LET m == CopyAssignment(Machine(failAt, junk), 1, 2)
      IN m.exc => /\ m.vec[1] = VecNow[1]
                  /\ After(m, 1) = Elems(1)

\* C9 (amended): a failure of a = b on the copy-and-swap path
\* (b.Size() > a.Capacity()) leaves a's block, size, capacity and elements
\* and the whole heap as before; a failure on the in-place path leaves a's
\* block, size and capacity as before, and every element of a holds either
\* its old value or the value of b at the same index.
C9_CopyAssignmentStrongOnSwapPath ==
  \A junk \in Values :
    \A failAt \in FailPoints(CopyAssignment(Machine(0, junk), 1, 2).n) :
      LET m == CopyAssignment(Machine(failAt, junk), 1, 2)
      IN m.exc =>
           /\ m.vec = VecNow
           /\ IF vec[2].size > vec[1].capacity
                THEN /\ m.heap = HeapNow
                     /\ m.path = "copy_swap"
                ELSE \A i \in 1..vec[1].size :
                       \/ After(m, 1)[i] = Elems(1)[i]
                       \/ i <= vec[2].size /\ After(m, 1)[i] = Elems(2)[i]

C9_Witness ==
  /\ last.op = "CopyAssignment"
  /\ last.path = "copy_swap"
  /\ last.thrown
  /\ vec[1].size >= 1
  /\ vec[2].size >= 2

\* C10: when Reserve fails (the allocation, or the copy of some element for
\* an element type relocated by copy), the array keeps its block, size,
\* capacity and elements, every copy made in the new block has been
\* destroyed and the new block has been released.
C10_ReserveStrong ==
  vec[1].alive =>
    \A n \in 0..MaxCap :
      \A failAt \in FailPoints(Reserve(Call, 1, n).n) :
        LET m == Reserve(Machine(failAt, 1), 1, n)
        IN m.exc =>
             /\ Untouched(m)
             /\ ~m.leak
             /\ m.frees = m.allocs
             /\ m.dtors = m.ctors

C10_Witness ==
  /\ last.op = "Reserve"
  /\ last.thrown
  /\ ~nothrow_move
  /\ vec[1].size >= 2

\* C13: Resize(n) leaves Size() = n and never lowers Capacity(); shrinking
\* destroys exactly the trailing Size() - n elements and keeps the first n;
\* growing keeps the existing elements, fills the slots [oldSize, n) with
\* default-constructed values and leaves Capacity() >= n; when Resize fails
\* while growing, Size() and the existing element values are as before.
C13_ResizeContract ==
  vec[1].alive =>
    \A n \in 0..MaxCap :
      /\ LET m == Resize(Call, 1, n)
             size == vec[1].size
         IN /\ ~m.exc
            /\ m.vec[1].size = n
            /\ m.vec[1].capacity >= vec[1].capacity
            /\ m.vec[1].capacity >= n
            /\ After(m, 1) = [i \in 1..n |-> IF i <= size THEN Elems(1)[i] ELSE DefaultValue]
            /\ n < size =>
                 /\ m.dtors = size - n
                 /\ m.ctors = 0
                 /\ m.vec[1].buffer = VecNow[1].buffer
                 /\ \A i \in (n + 1)..size : ~Live(m.heap[m.vec[1].buffer].cells[i])
      /\ \A failAt \in FailPoints(Resize(Call, 1, n).n) :
           LET m == Resize(Machine(failAt, 1), 1, n)
           IN m.exc => /\ m.vec[1].size = vec[1].size
                       /\ After(m, 1) = Elems(1)

C13_Witness ==
  /\ last.op = "Resize"
  /\ last.path = "grow"
  /\ last.thrown
  /\ vec[1].size >= 1
  /\ vec[1].capacity > vec[1].size

\* C14: PushBack and Insert with Size() = Capacity() yield capacity 1 when
\* the capacity was 0 and twice the capacity otherwise, in one allocation;
\* with Size() < Capacity() they keep the capacity and the block and
\* allocate and release nothing.
C14_CapacityDoubling ==
  vec[1].alive =>
    \A k \in 0..vec[1].size, arg \in Args(1) :
      \A m \in {Insert(Call, 1, k, arg), PushBack(Call, 1, arg)} :
        /\ ~m.exc
        /\ IF vec[1].size = vec[1].capacity
             THEN /\ m.vec[1].capacity = IF vec[1].capacity = 0 THEN 1
                                         ELSE 2 * vec[1].capacity
                  /\ m.allocs = 1
                  /\ m.path = "realloc"
             ELSE /\ m.vec[1].capacity = vec[1].capacity
                  /\ m.vec[1].buffer = VecNow[1].buffer
                  /\ m.allocs = 0
                  /\ m.frees = 0

C14_Witness ==
  /\ last.op = "PushBack"
  /\ last.path = "realloc"
  /\ ~last.thrown
  /\ vec[1].size = 3
  /\ vec[1].capacity = 4

\* C19: Insert(begin()+k, v[i]) and PushBack(v[i]) with an argument that
\* refers to element i of the array itself insert the value v[i] had before
\* the call and place the other elements as for any value, on the
\* reallocating, the shifting and the appending path, and read no slot
\* without an object.
C19_SelfReferenceInsert ==
  vec[1].alive =>
    \A i \in 0..(vec[1].size - 1) :
      /\ \A k \in 0..vec[1].size :
           LET m == Insert(Call, 1, k, RefArg(i))
           IN /\ ~m.exc
              /\ ~m.badRead
              /\ m.vec[1].size = vec[1].size + 1
              /\ After(m, 1) = InsertAt(Elems(1), k, Elems(1)[i + 1])
      /\ LET m == PushBack(Call, 1, RefArg(i))
         IN /\ ~m.exc
            /\ ~m.badRead
            /\ After(m, 1) = InsertAt(Elems(1), vec[1].size, Elems(1)[i + 1])

C19_Witness ==
  /\ last.op = "Insert"
  /\ last.self
  /\ last.path = "shift"
  /\ ~last.thrown
  /\ vec[1].size >= 3
  /\ \E i \in 1..vec[1].size : vec[1].cells[i] /= vec[1].cells[1]

\* C11 (as claimed): move construction and move assignment from b into a
\* distinct array a leave a with b's former block, size and elements and
\* leave b with Size() = 0 and Capacity() = 0, whatever a held before the
\* move assignment; Swap(a, b) exchanges block and size.
C11_MoveTransfers ==
  /\ (vec[1].alive /\ vec[2].alive) =>
       /\ LET m == MoveAssignment(Call, 1, 2)
          IN /\ ~m.exc
             /\ m.vec[1] = VecNow[2]
             /\ After(m, 1) = Elems(2)
             /\ m.vec[2].size = 0
             /\ m.vec[2].capacity = 0
       /\ LET m == Swap(Call, 1, 2)
          IN /\ m.vec[1] = VecNow[2]
             /\ m.vec[2] = VecNow[1]
             /\ m.heap = HeapNow
  /\ (~vec[1].alive /\ vec[2].alive) =>
       LET m == VectorMove(Call, 1, 2)
       IN /\ ~m.exc
          /\ m.vec[1] = VecNow[2]
          /\ After(m, 1) = Elems(2)
          /\ m.vec[2].size = 0
          /\ m.vec[2].capacity = 0
          /\ m.heap = HeapNow

\* C12: copy-assigning or move-assigning an array to itself changes neither
\* the array nor the heap, constructs, destroys, allocates and releases
\* nothing, and attempts no operation that can fail.
C12_SelfAssignmentNoOp ==
  \A v \in Vecs :
    vec[v].alive =>
      \A m \in {CopyAssignment(Call, v, v), MoveAssignment(Call, v, v)} :
        /\ ~m.exc
        /\ Untouched(m)
        /\ m.ctors = 0
        /\ m.dtors = 0
        /\ m.allocs = 0
        /\ m.frees = 0
        /\ m.n = 0
        /\ m.path = "self"

C12_Witness ==
  /\ last.op = "CopyAssignment"
  /\ last.path = "self"
  /\ ~last.thrown
  /\ \A v \in Vecs : vec[v].alive /\ vec[v].size >= 1

\* C17: after every copy construction, copy assignment, move construction,
\* move assignment, Swap, destruction and mutation no two arrays hold the
\* same block, every allocated block has an owner and no block was released
\* twice; a PushBack, Insert, Erase or element write on one array leaves
\* the block, size, capacity and elements of the other array as they were.
C17_UniqueOwnership ==
  /\ last.exclusive
  /\ last.balanced
  /\ \A v \in Vecs, w \in Vecs :
       (v /= w /\ vec[v].alive /\ vec[w].alive) =>
         \A x \in Values, k \in 0..vec[v].size :
           \A m \in {PushBack(Call, v, ExtArg(x)), Insert(Call, v, k, ExtArg(x))}
                     \cup (IF k < vec[v].size
                             THEN {Erase(Call, v, k), WriteElement(Call, v, k, x)}
                             ELSE {}) :
             /\ m.vec[w] = VecNow[w]
             /\ After(m, w) = Elems(w)
             /\ VecNow[w].buffer /= nullptr =>
                  m.heap[VecNow[w].buffer] = HeapNow[VecNow[w].buffer]

C17_Witness ==
  /\ last.op = "VectorCopy"
  /\ ~last.thrown
  /\ \A v \in Vecs : vec[v].alive /\ vec[v].size >= 2
  /\ Elems(1) = Elems(2)
  /\ Elems(1)[1] /= Elems(1)[2]

\* C15 (as claimed): after move construction or move assignment of a
\* RawMemory from a distinct source the target holds the source's former
\* handle and capacity, the source holds the null handle and capacity 0
\* whatever the target held before, and the buffer the target held before
\* has been released, once.
C15_RawMemoryMoveTransfers ==
  /\ (vec[1].alive /\ vec[2].alive) =>
       LET m == RawMemoryMoveAssignment(Call, 1, 2)
           old == VecNow[1].buffer
       IN /\ m.vec[1].buffer = VecNow[2].buffer
          /\ m.vec[1].capacity = VecNow[2].capacity
          /\ m.vec[2].buffer = nullptr
          /\ m.vec[2].capacity = 0
          /\ old /= nullptr => (~m.heap[old].alloc /\ m.frees = 1)
  /\ (~vec[1].alive /\ vec[2].alive) =>
       LET m == RawMemoryMoveCtor(Call, 1, 2)
       IN /\ m.vec[1].buffer = VecNow[2].buffer
          /\ m.vec[1].capacity = VecNow[2].capacity
          /\ m.vec[2].buffer = nullptr
          /\ m.vec[2].capacity = 0
          /\ m.frees = 0

\* a call kept the slot lifecycle: it built no object over a live one,
\* released no block that still held an object, and destroyed, assigned to
\* or wrote no slot without an object or outside its block
SlotsKept(m) == ~m.leak /\ ~m.ub

\* C16 (as claimed): in every call, also one that fails partway, no object
\* is lost without its destructor (a block released or a slot built over
\* while live) and no slot is destroyed while it holds no object, so that
\* after the destruction of the array every object built was destroyed once.
C16_SlotLifecycle ==
  vec[1].alive =>
    /\ \A k \in 0..vec[1].size, x \in Values :
         \A failAt \in FailPoints(Insert(Call, 1, k, ExtArg(x)).n) :
           SlotsKept(Insert(Machine(failAt, 1), 1, k, ExtArg(x)))
    /\ \A k \in 0..(vec[1].size - 1) :
         \A failAt \in FailPoints(Erase(Call, 1, k).n) :
           SlotsKept(Erase(Machine(failAt, 1), 1, k))
    /\ \A n \in 0..MaxCap :
         /\ \A failAt \in FailPoints(Reserve(Call, 1, n).n) :
              SlotsKept(Reserve(Machine(failAt, 1), 1, n))
         /\ \A failAt \in FailPoints(Resize(Call, 1, n).n) :
              SlotsKept(Resize(Machine(failAt, 1), 1, n))
    /\ SlotsKept(PopBack(Call, 1))
    /\ LET m == VectorDtor(Call, VecNow[1])
       IN /\ SlotsKept(m)
          /\ \A b \in BlockIds : ~m.heap[b].alloc

\* C18 (as claimed): every element read inside copy assignment, Reserve and
\* PushBack is a read of a slot that holds an object, at an index below
\* Size() of the array that owns the block.
C18_ReadsLive ==
  /\ \A junk \in Values :
       \A failAt \in FailPoints(CopyAssignment(Machine(0, junk), 1, 2).n) :
         ~CopyAssignment(Machine(failAt, junk), 1, 2).badRead
  /\ \A n \in 0..PairCap :
       \A failAt \in FailPoints(Reserve(Call, 1, n).n) :
         ~Reserve(Machine(failAt, 1), 1, n).badRead
  /\ \A v \in Vecs, x \in Values :
       \A failAt \in FailPoints(PushBack(Call, v, ExtArg(x)).n) :
         ~PushBack(Machine(failAt, 1), v, ExtArg(x)).badRead
====
